---- MODULE Spec2Model ----
(***************************************************************************)
(* Model of scripts/process-questionnaire.py: the quality scorer           *)
(* assess_feedback_quality and the batch transformation                    *)
(* process_questionnaire_responses.                                        *)
(*                                                                         *)
(* A Python string is a sequence of characters; a character is a TLA+      *)
(* string naming it ("sp" is the space, "x" a CJK character that belongs   *)
(* to no keyword, "jian4" the character of pinyin jian4, and so on).       *)
(* A cell of the DataFrame is a record [kind, s, n]:                       *)
(*    kind "str"  a Python str, s its characters                           *)
(*    kind "nan"  the missing value (float nan)                            *)
(*    kind "int"  a Python int n                                           *)
(*    kind "ts"   a pandas Timestamp of day n (not JSON serializable)      *)
(* A row (a pandas Series) is the sequence of its cells: row.iloc[i] is    *)
(* the cell at TLA+ position i + 1.                                        *)
(***************************************************************************)
EXTENDS Integers, Sequences, FiniteSets, TLC

VARIABLES
    df,            \* the table read by pd.read_excel: sequence of rows
    columns,       \* df.columns: sequence of column labels
    pc,            \* position of process_questionnaire_responses
    index,         \* number of rows the for loop has consumed
    payment_list,  \* the accumulating output list
    out_file,      \* the file payment_list_<date>.json on disk
    returned,      \* the value returned to the caller
    used_ids,      \* the uuid4 values drawn so far
    now,           \* the wall clock, in ticks
    score_row,     \* argument of a stand-alone call of assess_feedback_quality
    score_pc,      \* position of that call
    score_result   \* its outcome

vars == <<df, columns, pc, index, payment_list, out_file, returned, used_ids,
          now, score_row, score_pc, score_result>>

batch_vars == <<df, columns, pc, index, payment_list, out_file, returned,
                used_ids, now>>

score_vars == <<score_row, score_pc, score_result>>

(***************************************************************************)
(* Bounds of the model.                                                    *)
(***************************************************************************)
\* longest text cell exceeds the length threshold by at most MaxOver
MaxOver == 1
\* most rows in a table
MaxRows == 2
\* last tick of the wall clock
MaxClock == 2
\* ticks of the wall clock in one calendar day
TicksPerDay == 2

(***************************************************************************)
(* Program constants.                                                      *)
(***************************************************************************)
LEN_THRESHOLD == 10
PAY_THRESHOLD == 3
MAX_SCORE == 5
BASE_SCORE == 1
AMOUNT == 3
FIRST_TEXT_COL == 4
END_TEXT_COL == 8
CODE_COL == 1
ACCOUNT_COL == 2

\* the keyword list of line 56, in its order
KEYWORDS ==
    << <<"jian4", "yi4">>,    \* suggest
       <<"xi1", "wang4">>,    \* hope
       <<"ying1", "gai1">>,   \* should
       <<"ke3", "yi3">>,      \* could
       <<"gai3", "jin4">>,    \* improve
       <<"you1", "hua4">> >>  \* optimize

(***************************************************************************)
(* Python values.                                                          *)
(***************************************************************************)
Str(s) == [kind |-> "str", s |-> s, n |-> 0]
NaN == [kind |-> "nan", s |-> <<>>, n |-> 0]
PyInt(n) == [kind |-> "int", s |-> <<>>, n |-> n]
Timestamp(d) == [kind |-> "ts", s |-> <<>>, n |-> d]

Min(a, b) == IF a <= b THEN a ELSE b

DigitChar(d) == <<"0", "1", "2", "3", "4", "5", "6", "7", "8", "9">>[d + 1]

RECURSIVE Digits(_)
Digits(n) == IF n < 10 THEN <<DigitChar(n)>>
             ELSE Digits(n \div 10) \o <<DigitChar(n % 10)>>

\* str(int)
IntStr(n) == IF n < 0 THEN <<"-">> \o Digits(0 - n) ELSE Digits(n)

\* str(pd.Timestamp): 'YYYY-MM-DD 00:00:00' of day d of January 2024
TimestampStr(d) ==
    <<"2", "0", "2", "4", "-", "0", "1", "-">>
    \o (IF d < 10 THEN <<"0">> ELSE <<>>) \o Digits(d)
    \o <<"sp", "0", "0", ":", "0", "0", ":", "0", "0">>

\* str(row.iloc[i]) of line 48
PyStr(c) ==
    CASE c.kind = "str" -> c.s
      [] c.kind = "nan" -> <<"n", "a", "n">>
      [] c.kind = "int" -> IntStr(c.n)
      [] c.kind = "ts"  -> TimestampStr(c.n)

LowerChar(ch) ==
    CASE ch = "A" -> "a"
      [] ch = "B" -> "b"
      [] OTHER -> ch

\* str.lower()
Lower(s) == [i \in 1..Len(s) |-> LowerChar(s[i])]

RECURSIVE Join(_, _)
\* sep.join(parts)
Join(sep, parts) ==
    IF Len(parts) = 0 THEN <<>>
    ELSE IF Len(parts) = 1 THEN parts[1]
    ELSE parts[1] \o sep \o Join(sep, Tail(parts))

\* word in text
Contains(text, word) ==
    \E i \in 1..(Len(text) - Len(word) + 1) :
        SubSeq(text, i, i + Len(word) - 1) = word

\* row.iloc[i], defined when the position exists
Iloc(row, i) == row[i + 1]
HasIloc(row, i) == i + 1 <= Len(row)

(***************************************************************************)
(* assess_feedback_quality                                                 *)
(***************************************************************************)
Raise(e) == [raised |-> e, value |-> 0]
Return(v) == [raised |-> "none", value |-> v]

\* text_fields of line 48, the list comprehension over range(4, 8)
TextFields(row) ==
    [k \in 1..(END_TEXT_COL - FIRST_TEXT_COL) |->
        PyStr(Iloc(row, FIRST_TEXT_COL + k - 1))]

LengthCheckOff(text) == Len(text) >= LEN_THRESHOLD /\ text # PyStr(NaN)
\* the condition of line 51
LengthCheck(text) == Len(text) > LEN_THRESHOLD /\ text # PyStr(NaN)

RECURSIVE LengthLoop(_, _)
\* the loop of lines 50-52, started with the running score
LengthLoop(texts, score) ==
    IF Len(texts) = 0 THEN score
    ELSE LengthLoop(Tail(texts),
                    IF LengthCheck(Head(texts)) THEN score + 1 ELSE score)

\* full_text of line 55
FullText(texts) == Lower(Join(<<"sp">>, texts))

KeywordHitFirstOnly(full_text) == Contains(full_text, KEYWORDS[1])
\* the any(...) of line 56
KeywordHit(full_text) ==
    \E k \in 1..Len(KEYWORDS) : Contains(full_text, KEYWORDS[k])

NoClamp(score) == score
\* min(score, 5) of line 59
Clamp(score) == Min(score, MAX_SCORE)

assess_feedback_quality(row) ==
    IF \E i \in FIRST_TEXT_COL..(END_TEXT_COL - 1) : ~HasIloc(row, i)
    THEN Raise("IndexError")
    ELSE LET text_fields == TextFields(row)
             s1 == LengthLoop(text_fields, 0 + BASE_SCORE)
             s2 == IF KeywordHit(FullText(text_fields)) THEN s1 + 1 ELSE s1
         IN  Return(Clamp(s2))

(***************************************************************************)
(* process_questionnaire_responses                                         *)
(***************************************************************************)
\* row.to_dict(): the mapping from the column labels to the row's cells
ToDict(cols, row) ==
    [h \in {cols[i] : i \in 1..Len(row)} |->
        row[CHOOSE i \in 1..Len(row) : cols[i] = h]]

PaymentInfoSwapped(row, quality_score, id, t) ==
    [id |-> id, feedback_code |-> Iloc(row, ACCOUNT_COL),
     alipay_account |-> Iloc(row, CODE_COL), amount |-> AMOUNT,
     quality_score |-> quality_score, created_at |-> t,
     payment_status |-> "pending", feedback_data |-> ToDict(columns, row)]
PaymentInfoPaid(row, quality_score, id, t) ==
    [id |-> id, feedback_code |-> Iloc(row, CODE_COL),
     alipay_account |-> Iloc(row, ACCOUNT_COL), amount |-> AMOUNT,
     quality_score |-> quality_score, created_at |-> t,
     payment_status |-> "paid", feedback_data |-> ToDict(columns, row)]
\* the dict literal of lines 21-30
PaymentInfo(row, quality_score, id, t) ==
    [id |-> id,
     feedback_code |-> Iloc(row, CODE_COL),
     alipay_account |-> Iloc(row, ACCOUNT_COL),
     amount |-> AMOUNT,
     quality_score |-> quality_score,
     created_at |-> t,
     payment_status |-> "pending",
     feedback_data |-> ToDict(columns, row)]

QualifiesStrict(quality_score) == quality_score > PAY_THRESHOLD
\* the test of line 20
Qualifies(quality_score) == quality_score >= PAY_THRESHOLD

ListPrepend(list, item) == <<item>> \o list
\* payment_list.append(payment_info) of line 31
ListAppend(list, item) == Append(list, item)

\* json can encode str, int and float (nan included: allow_nan), not Timestamp
Serializable(c) == c.kind # "ts"

\* the values of one record in the order json.dump meets them: the dict's
\* insertion order, feedback_data's cells in column order
RecordItems(rec) ==
    << [key |-> "id", json |-> Str(IntStr(rec.id))],
       [key |-> "feedback_code", json |-> rec.feedback_code],
       [key |-> "alipay_account", json |-> rec.alipay_account],
       [key |-> "amount", json |-> PyInt(rec.amount)],
       [key |-> "quality_score", json |-> PyInt(rec.quality_score)],
       [key |-> "created_at", json |-> Str(IntStr(rec.created_at))],
       [key |-> "payment_status", json |-> Str(<<rec.payment_status>>)] >>
    \o [i \in 1..Cardinality(DOMAIN rec.feedback_data) |->
          [key |-> columns[i], json |-> rec.feedback_data[columns[i]]]]

RECURSIVE AllItems(_, _)
\* the items of the whole list, each tagged with its record's position
AllItems(list, pos) ==
    IF Len(list) = 0 THEN <<>>
    ELSE [i \in 1..Len(RecordItems(Head(list))) |->
            [rec |-> pos, key |-> RecordItems(Head(list))[i].key,
             json |-> RecordItems(Head(list))[i].json]]
         \o AllItems(Tail(list), pos + 1)

RECURSIVE WritableCount(_)
\* how many items json.dump writes before the first it cannot encode
WritableCount(items) ==
    IF Len(items) = 0 THEN 0
    ELSE IF ~Serializable(Head(items).json) THEN 0
    ELSE 1 + WritableCount(Tail(items))

\* the file after `with open(..., 'w') as f: json.dump(payment_list, f, ...)`:
\* json.dump writes chunk by chunk, and leaving the with block closes the file
\* with whatever was written
DumpedFile(list, date) ==
    LET items == AllItems(list, 1)
        n == WritableCount(items)
    IN  [exists |-> TRUE, date |-> date, items |-> SubSeq(items, 1, n),
         closed_array |-> (n = Len(items))]

NoFile == [exists |-> FALSE, date |-> 0, items |-> <<>>, closed_array |-> FALSE]

(***************************************************************************)
(* Inputs.                                                                 *)
(***************************************************************************)
Fill(ch, n) == [i \in 1..n |-> ch]

OverLens == (LEN_THRESHOLD + 1)..(LEN_THRESHOLD + MaxOver)

\* cells a text column can hold (pd.read_excel turns an empty cell and an
\* empty string into the missing value, so no cell is the empty string)
TextPool ==
    { NaN,
      Str(<<"sp">>),
      Str(Fill("sp", LEN_THRESHOLD)),
      Str(Fill("x", LEN_THRESHOLD)),
      Str(KEYWORDS[1]),
      Str(KEYWORDS[1] \o Fill("x", LEN_THRESHOLD - 2)),
      Str(<<"jian4">>),
      Str(<<"yi4">>),
      PyInt(1234567890),
      PyInt(0 - 1234567890) }
    \cup UNION { { Str(Fill("sp", n)),
                   Str(Fill("x", n)),
                   Str(Fill("x", n - 2) \o KEYWORDS[1]) } : n \in OverLens }

\* the last text column also holds each of the other keywords
LastTextPool == TextPool \cup { Str(KEYWORDS[k]) : k \in 2..Len(KEYWORDS) }

ColumnLabels == <<"time", "code", "alipay", "q3", "q4", "q5", "q6", "q7">>

RowHead(c0, who) ==
    <<c0, Str(<<"F", who>>), Str(<<"a", who>>), Str(<<"x">>)>>

ScoreRows ==
    { RowHead(PyInt(7), "1") \o <<t4, t5, t6, t7>> :
        t4 \in TextPool, t5 \in TextPool, t6 \in TextPool, t7 \in LastTextPool }

\* tables narrower than eight columns: two and six columns
NarrowWidths == {ACCOUNT_COL, END_TEXT_COL - 2}

NarrowRows ==
    { SubSeq(RowHead(PyInt(7), "1")
             \o <<Str(Fill("x", LEN_THRESHOLD + 1)), Str(KEYWORDS[1]), NaN, NaN>>,
             1, w) : w \in NarrowWidths }

\* the text columns of the rows of a table: scores 1, 2, 3 and 5 (raw 6)
TextProfiles ==
    { <<NaN, NaN, NaN, NaN>>,
      <<NaN, Str(KEYWORDS[6]), NaN, NaN>>,
      <<Str(Fill("x", LEN_THRESHOLD + 1)), Str(KEYWORDS[1]), NaN, NaN>>,
      <<Str(Fill("x", LEN_THRESHOLD + 1)),
        Str(Fill("x", LEN_THRESHOLD) \o KEYWORDS[2]),
        Str(Fill("x", LEN_THRESHOLD + 1)),
        Str(Fill("sp", LEN_THRESHOLD + 1))>> }

\* columns 0..3 of the rows of a table: column 0 a number or a datetime
TableHeads ==
    { RowHead(PyInt(7), "1"), RowHead(PyInt(7), "2"), RowHead(Timestamp(1), "1") }

TableRows == { head \o texts : head \in TableHeads, texts \in TextProfiles }

Tables ==
    UNION { [1..n -> TableRows] : n \in 0..MaxRows }
    \cup UNION { [1..n -> {r}] : n \in 1..MaxRows, r \in NarrowRows }

TableWidth(t) == IF Len(t) = 0 THEN Len(ColumnLabels) ELSE Len(t[1])

UUIDS == 1..MaxRows

\* what a call of datetime.now() can return when the clock shows `t`
Ticks(t) == t..Min(t + 1, MaxClock)

\* strftime("%Y%m%d") of a tick
DayOf(t) == t \div TicksPerDay

NoResult == [raised |-> "pending", value |-> 0]
NotReturned == [set |-> FALSE, value |-> <<>>]

(***************************************************************************)
(* The batch run: process_questionnaire_responses(excel_file).             *)
(***************************************************************************)
Init ==
    /\ df \in Tables
    /\ columns = SubSeq(ColumnLabels, 1, TableWidth(df))
    /\ pc = "loop"
    /\ index = 0
    /\ payment_list = <<>>
    /\ out_file = NoFile
    /\ returned = NotReturned
    /\ used_ids = {}
    /\ now = 0
    /\ score_row = <<>>
    /\ score_pc = "idle"
    /\ score_result = NoResult

\* one iteration of the for loop, lines 12-31
ProcessRow ==
    /\ pc = "loop"
    /\ index < Len(df)
    /\ LET row == df[index + 1]
           q == assess_feedback_quality(row)
       IN  IF ~HasIloc(row, CODE_COL) \/ ~HasIloc(row, ACCOUNT_COL)
              \/ q.raised # "none"
           THEN /\ pc' = "raised"
                /\ UNCHANGED <<index, payment_list, used_ids, now>>
           ELSE IF Qualifies(q.value)
           THEN \E id \in UUIDS \ used_ids, t \in Ticks(now) :
                    /\ payment_list' =
                          ListAppend(payment_list, PaymentInfo(row, q.value, id, t))
                    /\ used_ids' = used_ids \cup {id}
                    /\ now' = t
                    /\ index' = index + 1
                    /\ pc' = "loop"
           ELSE /\ index' = index + 1
                /\ UNCHANGED <<pc, payment_list, used_ids, now>>
    /\ UNCHANGED <<df, columns, out_file, returned, score_vars>>

\* after the loop, lines 34-38: open, json.dump, print, return
DumpAndReturn ==
    /\ pc = "loop"
    /\ index = Len(df)
    /\ \E t \in Ticks(now) :
          /\ now' = t
          /\ out_file' = DumpedFile(payment_list, DayOf(t))
    /\ IF out_file'.closed_array
       THEN /\ pc' = "done"
            /\ returned' = [set |-> TRUE, value |-> payment_list]
       ELSE /\ pc' = "raised"
            /\ UNCHANGED returned
    /\ UNCHANGED <<df, columns, index, payment_list, used_ids, score_vars>>

Next == ProcessRow \/ DumpAndReturn

Spec == Init /\ [][Next]_vars

(***************************************************************************)
(* A stand-alone call assess_feedback_quality(row).                        *)
(***************************************************************************)
InitScore ==
    /\ df = <<>>
    /\ columns = ColumnLabels
    /\ pc = "idle"
    /\ index = 0
    /\ payment_list = <<>>
    /\ out_file = NoFile
    /\ returned = NotReturned
    /\ used_ids = {}
    /\ now = 0
    /\ score_row \in ScoreRows \cup NarrowRows
    /\ score_pc = "call"
    /\ score_result = NoResult

Assess ==
    /\ score_pc = "call"
    /\ score_result' = assess_feedback_quality(score_row)
    /\ score_pc' = "ended"
    /\ UNCHANGED <<score_row, batch_vars>>

NextScore == Assess

SpecScore == InitScore /\ [][NextScore]_vars

(***************************************************************************)
(* Vocabulary of the properties.                                           *)
(***************************************************************************)
TextCols == 4..7

FieldStr(row, i) == PyStr(row[i + 1])

\* L: the text fields longer than ten characters and not the string 'nan'
LongFields(row) ==
    { i \in TextCols : Len(FieldStr(row, i)) > 10
                        /\ FieldStr(row, i) # <<"n", "a", "n">> }

\* the four fields joined by single spaces, lowercased
Concatenation(row) ==
    Lower(FieldStr(row, 4) \o <<"sp">> \o FieldStr(row, 5) \o <<"sp">>
          \o FieldStr(row, 6) \o <<"sp">> \o FieldStr(row, 7))

HasKeyword(text) == \E k \in DOMAIN KEYWORDS : Contains(text, KEYWORDS[k])

\* K
KeywordPoint(row) == IF HasKeyword(Concatenation(row)) THEN 1 ELSE 0

Scored == score_pc = "ended" /\ score_result.raised = "none"

IsMissingOrEmpty(c) == c.kind = "nan" \/ (c.kind = "str" /\ c.s = <<>>)

IsWhitespace(c) == c.kind = "str" /\ \A i \in DOMAIN c.s : c.s[i] = "sp"

\* missing value, empty string, or whitespace-only string of any length
IsBlank(c) == c.kind = "nan" \/ IsWhitespace(c)

IsPrefix(s, t) == Len(s) <= Len(t) /\ SubSeq(t, 1, Len(s)) = s

\* the row a record's feedback_data spells out, column by column
RowOf(rec) == [j \in DOMAIN columns |-> rec.feedback_data[columns[j]]]

ScoreOf(row) == assess_feedback_quality(row).value

HighQuality(row) == ScoreOf(row) >= 3

(***************************************************************************)
(* C1. When the run completes, the returned list, which is also what the   *)
(* file holds, has exactly one record per row of the table whose score is  *)
(* at least 3, none for any other row, in the order of the rows.           *)
(***************************************************************************)
C1_OneRecordPerQualifyingRow ==
    pc = "done" =>
        /\ returned.set
        /\ [k \in DOMAIN returned.value |-> RowOf(returned.value[k])]
             = SelectSeq(df, HighQuality)
        /\ out_file.exists /\ out_file.closed_array
        /\ { it.rec : it \in { out_file.items[n] : n \in DOMAIN out_file.items } }
             = DOMAIN returned.value
        /\ \A n \in DOMAIN out_file.items :
             LET it == out_file.items[n]
             IN  it.key \in { columns[j] : j \in DOMAIN columns } =>
                     it.json = returned.value[it.rec].feedback_data[it.key]

C1_Witness ==
    /\ pc = "done"
    /\ Len(df) >= 2
    /\ Len(returned.value) >= 1
    /\ Len(returned.value) < Len(df)
    /\ ~HighQuality(df[1])

(***************************************************************************)
(* C2. The score assess_feedback_quality returns is an integer from 0 to   *)
(* 5: the raw sum, which reaches 6, is clamped to 5.                       *)
(***************************************************************************)
C2_ScoreInRange ==
    Scored => score_result.value \in 0..5

C2_Witness ==
    /\ Scored
    /\ 1 + Cardinality(LongFields(score_row)) + KeywordPoint(score_row) = 6
    /\ score_result.value = 5

(***************************************************************************)
(* C3. The score is min(5, 1 + L + K): L the number of text fields whose   *)
(* string form is longer than 10 characters and is not 'nan', K 1 when the *)
(* lowercased concatenation holds a keyword and 0 otherwise. A field of    *)
(* exactly 10 characters adds nothing; one field of 11 characters and no   *)
(* keyword gives 2.                                                        *)
(***************************************************************************)
C3_ScoreFormula ==
    Scored =>
        /\ score_result.value =
             Min(5, 1 + Cardinality(LongFields(score_row)) + KeywordPoint(score_row))
        /\ (\A i \in TextCols : Len(FieldStr(score_row, i)) <= 10)
             => score_result.value = 1 + KeywordPoint(score_row)
        /\ (/\ KeywordPoint(score_row) = 0
            /\ \E i \in TextCols :
                 /\ Len(FieldStr(score_row, i)) = 11
                 /\ \A j \in TextCols \ {i} : Len(FieldStr(score_row, j)) <= 10)
             => score_result.value = 2

C3_Witness ==
    /\ Scored
    /\ score_result.value = 2
    /\ KeywordPoint(score_row) = 0
    /\ Len(FieldStr(score_row, 4)) = 11
    /\ Len(FieldStr(score_row, 5)) = 10
    /\ score_row[5].kind = "int"

(***************************************************************************)
(* C4. A run either succeeds, leaving the complete list in the file and    *)
(* returning it, or aborts leaving no file that holds part of the records. *)
(***************************************************************************)
C4_AllOrNothing ==
    /\ pc = "done" =>
          returned.set /\ out_file.exists /\ out_file.closed_array
    /\ pc = "raised" =>
          ~(out_file.exists /\ ~out_file.closed_array)

(***************************************************************************)
(* C5. Every emitted record has amount 3.00 and payment_status "pending".  *)
(***************************************************************************)
C5_AmountAndStatus ==
    /\ \A k \in DOMAIN payment_list :
          payment_list[k].amount = 3 /\ payment_list[k].payment_status = "pending"
    /\ \A k \in DOMAIN returned.value :
          returned.value[k].amount = 3
          /\ returned.value[k].payment_status = "pending"
    /\ \A n \in DOMAIN out_file.items :
          /\ out_file.items[n].key = "amount"
                => out_file.items[n].json = PyInt(3)
          /\ out_file.items[n].key = "payment_status"
                => out_file.items[n].json = Str(<<"pending">>)

C5_Witness ==
    /\ pc = "done"
    /\ Len(returned.value) >= 2
    /\ returned.value[1].quality_score # returned.value[2].quality_score

(***************************************************************************)
(* C6. assess_feedback_quality never raises: every row, rows without all   *)
(* of columns 4..7 included, gets a score.                                 *)
(***************************************************************************)
C6_NeverRaises ==
    score_pc = "ended" => score_result.raised = "none"

(***************************************************************************)
(* C7. A row whose four text fields are all blank (missing, empty or       *)
(* whitespace only, of any length) scores exactly 1.                       *)
(***************************************************************************)
C7_AllBlankScoresOne ==
    (/\ score_pc = "ended"
     /\ Len(score_row) = 8
     /\ \A i \in TextCols : IsBlank(score_row[i + 1]))
        => Scored /\ score_result.value = 1

(***************************************************************************)
(* C8. A row with a keyword in one text field and the other text fields    *)
(* blank scores exactly 2, whatever the length of the keyword's field.     *)
(* As claimed (blank read in its narrowest sense, missing or empty):       *)
(***************************************************************************)
C8_KeywordRowScoresTwo ==
    (/\ Scored
     /\ \E i \in TextCols :
          /\ HasKeyword(Lower(FieldStr(score_row, i)))
          /\ \A j \in TextCols \ {i} : IsMissingOrEmpty(score_row[j + 1]))
        => score_result.value = 2

(***************************************************************************)
(* C8, amended. A row with a keyword in one text field and the other text  *)
(* fields blank (missing, empty or whitespace only) scores 2 plus one for  *)
(* each of the four fields whose string form is longer than 10 characters, *)
(* at most 5: exactly 2 when no field is longer than 10 characters, and 3  *)
(* when the keyword's field is and the others are missing or empty.        *)
(***************************************************************************)
C8_KeywordRowScore ==
    Scored =>
        \A i \in TextCols :
            (/\ HasKeyword(Lower(FieldStr(score_row, i)))
             /\ \A j \in TextCols \ {i} : IsBlank(score_row[j + 1]))
            => /\ score_result.value =
                    Min(5, 2 + Cardinality({ j \in TextCols :
                                               Len(FieldStr(score_row, j)) > 10 }))
               /\ (\A j \in TextCols : Len(FieldStr(score_row, j)) <= 10)
                    => score_result.value = 2
               /\ (/\ Len(FieldStr(score_row, i)) > 10
                   /\ \A j \in TextCols \ {i} : IsMissingOrEmpty(score_row[j + 1]))
                    => score_result.value = 3

C8_Witness ==
    /\ Scored
    /\ score_result.value = 3
    /\ HasKeyword(Lower(FieldStr(score_row, 7)))
    /\ Len(FieldStr(score_row, 7)) > 10
    /\ \A j \in 4..6 : IsMissingOrEmpty(score_row[j + 1])

(***************************************************************************)
(* C9. The output list is append-only: every step leaves the list as it    *)
(* was or adds one record at its end, and only a step that consumes a row  *)
(* adds one, so the list after row k is a prefix of the list after any     *)
(* later row and a row contributes at most one record.                     *)
(***************************************************************************)
C9_AppendOnly ==
    [][/\ IsPrefix(payment_list, payment_list')
       /\ Len(payment_list') - Len(payment_list) <= index' - index
       /\ index' - index <= 1
       /\ Len(payment_list') <= index']_vars

C9_Witness ==
    /\ index >= 2
    /\ Len(payment_list) >= 1
    /\ Len(payment_list) < index
    /\ RowOf(payment_list[1]) = df[1]

(***************************************************************************)
(* C10. Every emitted record is built from a single row already consumed:  *)
(* its feedback_code is that row's column 1, its alipay_account that row's *)
(* column 2, its feedback_data that row's full mapping, its quality_score  *)
(* that row's score, which is from 3 to 5.                                 *)
(***************************************************************************)
C10_RecordFromOneRow ==
    \A k \in DOMAIN payment_list :
        \E r \in 1..index :
            LET rec == payment_list[k]
                row == df[r]
            IN  /\ rec.feedback_code = row[2]
                /\ rec.alipay_account = row[3]
                /\ DOMAIN rec.feedback_data = { columns[j] : j \in DOMAIN columns }
                /\ \A j \in DOMAIN row : rec.feedback_data[columns[j]] = row[j]
                /\ rec.quality_score = ScoreOf(row)
                /\ rec.quality_score \in 3..5

C10_Witness ==
    /\ Len(payment_list) = 2
    /\ payment_list[1].feedback_code # payment_list[2].feedback_code
    /\ payment_list[1].quality_score # payment_list[2].quality_score
    /\ payment_list[1].feedback_code # payment_list[1].alipay_account

====
